---- MODULE Spec2Model ----
(***************************************************************************)
(* view_database.py: a script that opens data/atm_database.db, prints five *)
(* report sections (technician credentials, accounts, ATM state, last 20   *)
(* transactions, last 20 technician activities) and closes the connection. *)
(*                                                                         *)
(* Text is modelled by TLA+ strings, so that widths, padding and digits    *)
(* are those of the printed report.  A column value that may be NULL is a  *)
(* sequence of length 0 (NULL / None) or 1 (the value).  Money is counted  *)
(* in cents: 1234.5 is 123450.                                             *)
(***************************************************************************)
EXTENDS Integers, Sequences, FiniteSets, TLC

VARIABLES
    pc,        \* the statement group the script is about to run
    conn,      \* the sqlite3 connection: "unopened", "open", "closed"
    out,       \* standard output: the sequence of print calls made so far
    store,     \* data/atm_database.db on disk: file status, tables present, rows
    err,       \* the exception that ended the run, if any
    executed   \* the cursor.execute calls made so far (section numbers)

vars == <<pc, conn, out, store, err, executed>>

----------------------------------------------------------------------------
(* Bounds of the model *)

\* most rows per table in the stores of Init
MaxSmall == 2
\* most rows of transactions / technician_activities in the stores of InitLimit
MaxRows == 22

----------------------------------------------------------------------------
(* Values *)

None == <<>>
Some(v) == <<v>>

Min(a, b) == IF a < b THEN a ELSE b
Max(a, b) == IF a > b THEN a ELSE b

TableNames == <<"technician_credentials", "accounts", "atm_state",
                "transactions", "technician_activities">>

Sections == 1..5

----------------------------------------------------------------------------
(* Python string formatting *)

RECURSIVE Rep(_, _)
\* c * n
Rep(c, n) == IF n <= 0 THEN "" ELSE c \o Rep(c, n - 1)

Digit(d) == SubSeq("0123456789", d + 1, d + 1)

RECURSIVE NatStr(_)
\* str(n) for n >= 0
NatStr(n) == IF n < 10 THEN Digit(n) ELSE NatStr(n \div 10) \o Digit(n % 10)

\* str(n) of an int
IntStr(n) == IF n < 0 THEN "-" \o NatStr(-n) ELSE NatStr(n)

RECURSIVE GroupedStr(_)
\* the ',' option: digits of n >= 0 in groups of three
GroupedStr(n) ==
    IF n < 1000 THEN NatStr(n)
    ELSE GroupedStr(n \div 1000) \o "," \o Digit((n % 1000) \div 100)
             \o Digit((n % 100) \div 10) \o Digit(n % 10)

Abs(n) == IF n < 0 THEN -n ELSE n

\* the two decimals of '.2f'
Decimals(cents) == "." \o Digit((Abs(cents) % 100) \div 10) \o Digit(Abs(cents) % 10)

\* f'{x:.2f}'
Fixed2(cents) ==
    (IF cents < 0 THEN "-" ELSE "") \o NatStr(Abs(cents) \div 100) \o Decimals(cents)

\* f'{x:,.2f}'
Fixed2Grouped(cents) ==
    (IF cents < 0 THEN "-" ELSE "") \o GroupedStr(Abs(cents) \div 100) \o Decimals(cents)

\* f'{s:>w}', and the default alignment of numbers: pad on the left, never cut
AlignRight(s, w) == Rep(" ", w - Len(s)) \o s

\* the default alignment of strings: pad on the right, never cut
AlignLeft(s, w) == s \o Rep(" ", w - Len(s))

\* FmtS cutting the value at the width
FmtSCut(v, w) == SubSeq(AlignLeft(v[1], w), 1, w)

\* f'{v:ws}' of a str
FmtS(v, w) == AlignLeft(v[1], w)

\* f'{v:w,.2f}' of a number
FmtMoney(v, w) == AlignRight(Fixed2Grouped(v[1]), w)

\* f'{v:wd}' of an int
FmtD(v, w) == AlignRight(IntStr(v[1]), w)

\* f'{v}': str(v), which is 'None' for None
Str(v) == IF v = None THEN "None" ELSE v[1]

\* a format spec applied to None raises TypeError
FormatRaises(v) == v = None

RECURSIVE Interleave(_, _)
\* an f-string: literal pieces and formatted values in turn
Interleave(labels, cols) ==
    IF labels = <<>> THEN ""
    ELSE labels[1] \o cols[1] \o Interleave(Tail(labels), Tail(cols))

----------------------------------------------------------------------------
(* The report: what each print call writes *)

\* '='*80
RuleWidth == 80
\* LIMIT 20
Limit == 20

\* One print call.  text is what is written; sec, kind, id and cols say which
\* print statement wrote it, for which row, and from which formatted values.
Printed(sec, kind, id, cols, text) ==
    [sec |-> sec, kind |-> kind, id |-> id, cols |-> cols, text |-> text]

Titles == <<"TECHNICIAN CREDENTIALS",
            "ACCOUNTS TABLE - All Customer Account Information",
            "ATM STATE - Machine Resources",
            "TRANSACTIONS LOG - All Transactions (Last 20)",
            "TECHNICIAN ACTIVITIES LOG - All Technician Actions (Last 20)">>

\* Header without the rule under the title
HeaderNoRule(k) ==
    << Printed(k, "rule", 0, <<>>, "\n" \o Rep("=", RuleWidth)),
       Printed(k, "title", 0, <<>>, Titles[k]) >>

\* print('\n' + '='*80); print(title); print('='*80)
Header(k) ==
    << Printed(k, "rule", 0, <<>>, "\n" \o Rep("=", RuleWidth)),
       Printed(k, "title", 0, <<>>, Titles[k]),
       Printed(k, "rule2", 0, <<>>, Rep("=", RuleWidth)) >>

Placeholder(k, text) == Printed(k, "empty", 0, <<>>, text)

RowLine(k, row, labels, cols) ==
    Printed(k, "row", row.id, cols, Interleave(labels, cols))

\* LastLogin without the substitution
LastLoginAsStored(v) == Str(v)

\* row[6] if row[6] else "Never": None and the empty string are falsy
LastLogin(v) == IF v /= None /\ v[1] /= "" THEN v[1] ELSE "Never"

CredLabels == <<"ID: ", " | Username: ", " | Password: ", " | Name: ",
                " | Role: ", " | Created: ", " | Last Login: ">>

CredCols(row) ==
    << IntStr(row.id), FmtS(row.username, 15), FmtS(row.password, 10),
       FmtS(row.full_name, 25), FmtS(row.role, 10), Str(row.created_date),
       LastLogin(row.last_login) >>

CredRaises(row) ==
    \/ FormatRaises(row.username)
    \/ FormatRaises(row.password)
    \/ FormatRaises(row.full_name)
    \/ FormatRaises(row.role)

AcctLabels == <<"Account #: ", " | Name: ", " | Balance: $", " | PIN: ">>

AcctCols(row) ==
    << FmtS(row.account_number, 6), FmtS(row.name, 15),
       FmtMoney(row.balance, 10), Str(row.pin) >>

AcctRaises(row) ==
    \/ FormatRaises(row.account_number)
    \/ FormatRaises(row.name)
    \/ FormatRaises(row.balance)

AtmLabels == <<"ATM Cash: $", " | Paper Sheets: ", " | Ink Units: ">>

AtmCols(row) ==
    << FmtMoney(row.cash, 10), FmtD(row.paper_sheets, 3), FmtD(row.ink_units, 3) >>

AtmRaises(row) ==
    \/ FormatRaises(row.cash)
    \/ FormatRaises(row.paper_sheets)
    \/ FormatRaises(row.ink_units)

TxLabels == <<"ID: ", " | Account: ", " | Holder: ", " | Type: ", " | Amount: $",
              " | Prev: $", " | New: $", " | Time: ">>

TxCols(row) ==
    << FmtD(Some(row.id), 3), FmtS(row.account_number, 6),
       FmtS(row.account_holder, 15), FmtS(row.transaction_type, 15),
       FmtMoney(row.amount, 8), FmtMoney(row.previous_balance, 8),
       FmtMoney(row.new_balance, 8), Str(row.timestamp) >>

TxRaises(row) ==
    \/ FormatRaises(row.account_number)
    \/ FormatRaises(row.account_holder)
    \/ FormatRaises(row.transaction_type)
    \/ FormatRaises(row.amount)
    \/ FormatRaises(row.previous_balance)
    \/ FormatRaises(row.new_balance)

\* f'${row[2]:.2f}' if row[2] is not None else 'N/A'
AmountStr(v) == IF v /= None THEN "$" \o Fixed2(v[1]) ELSE "N/A"

\* f'{row[4]:.2f}' if row[4] is not None else 'N/A'
ValueStr(v) == IF v /= None THEN Fixed2(v[1]) ELSE "N/A"

ActLabels == <<"ID: ", " | Type: ", " | Amount: ", " | Description: ",
               " | Prev: ", " | New: ", " | Time: ">>

ActCols(row) ==
    << FmtD(Some(row.id), 3), FmtS(row.activity_type, 15),
       AlignRight(AmountStr(row.amount), 10), FmtS(row.description, 25),
       AlignRight(ValueStr(row.previous_value), 10),
       AlignRight(ValueStr(row.new_value), 10), Str(row.timestamp) >>

ActRaises(row) ==
    \/ FormatRaises(row.activity_type)
    \/ FormatRaises(row.description)

\* whether printing the row of section k raises
Raises(k, row) ==
    CASE k = 1 -> CredRaises(row)
      [] k = 2 -> AcctRaises(row)
      [] k = 3 -> AtmRaises(row)
      [] k = 4 -> TxRaises(row)
      [] k = 5 -> ActRaises(row)

\* the print call of the row loop of section k
Line(k, row) ==
    CASE k = 1 -> RowLine(1, row, CredLabels, CredCols(row))
      [] k = 2 -> RowLine(2, row, AcctLabels, AcctCols(row))
      [] k = 3 -> RowLine(3, row, AtmLabels, AtmCols(row))
      [] k = 4 -> RowLine(4, row, TxLabels, TxCols(row))
      [] k = 5 -> RowLine(5, row, ActLabels, ActCols(row))

\* for row in rows: print(...).  The loop stops at the first row that raises;
\* the rows before it are already printed.
ForRows(k, rows) ==
    LET bad == {i \in 1..Len(rows) : Raises(k, rows[i])}
        stop == IF bad = {} THEN Len(rows) + 1
                ELSE CHOOSE i \in bad : \A j \in bad : i <= j
    IN  [lines |-> [i \in 1..(stop - 1) |-> Line(k, rows[i])], ok |-> bad = {}]

\* if rows: for row in rows: print(...)  else: print(text)
ForRowsOrPlaceholder(k, rows, text) ==
    IF rows /= <<>> THEN ForRows(k, rows)
    ELSE [lines |-> <<Placeholder(k, text)>>, ok |-> TRUE]

CredentialsBody(rows) ==
    ForRowsOrPlaceholder(1, rows, "No technician credentials found.")

AccountsBody(rows) == ForRows(2, rows)

AtmStateBody(rows) == ForRows(3, rows)

\* TransactionsBody without the else branch
TransactionsBodyNoElse(rows) == ForRows(4, rows)

TransactionsBody(rows) == ForRowsOrPlaceholder(4, rows, "No transactions found.")

ActivitiesBody(rows) ==
    ForRowsOrPlaceholder(5, rows, "No technician activities found.")

----------------------------------------------------------------------------
(* The queries *)

RECURSIVE SortDesc(_, _)
\* the rows at the indices idxs, largest id first
SortDesc(rows, idxs) ==
    IF idxs = {} THEN <<>>
    ELSE LET m == CHOOSE i \in idxs :
                    \A j \in idxs : rows[j].id < rows[i].id
                                       \/ (rows[j].id = rows[i].id /\ i <= j)
         IN  <<rows[m]>> \o SortDesc(rows, idxs \ {m})

\* OrderByIdDesc without the ORDER BY: the rows in storage order
StorageOrder(rows) == rows

\* ORDER BY id DESC
OrderByIdDesc(rows) == SortDesc(rows, 1..Len(rows))

\* LIMIT n
LimitTo(rows, n) == SubSeq(rows, 1, Min(n, Len(rows)))

\* SELECT ... FROM t: the rows in storage order
SelectAll(rows) == rows

\* SELECT ... FROM t ORDER BY id DESC LIMIT 20
SelectLast(rows) == LimitTo(OrderByIdDesc(rows), Limit)

\* the SELECT of section k, over the table's rows
Select(k, rows) == IF k \in {4, 5} THEN SelectLast(rows) ELSE SelectAll(rows)

\* cursor.execute(...); cursor.fetchall(): OperationalError (no such table)
\* when the file holds no such table
Execute(k) ==
    IF TableNames[k] \in store.schema
    THEN [ok |-> TRUE, rows |-> Select(k, store.tables[k])]
    ELSE [ok |-> FALSE, rows |-> <<>>]

----------------------------------------------------------------------------
(* The store: data/atm_database.db as the run finds it *)

AllTables == {TableNames[k] : k \in Sections}

CredRow(i) ==
    [id |-> i, username |-> Some("tech" \o NatStr(i)), password |-> Some("pw123"),
     full_name |-> Some("Technician " \o NatStr(i)), role |-> Some("technician"),
     created_date |-> Some("2024-01-01 10:00:00"),
     last_login |-> IF i % 2 = 1 THEN None ELSE Some("2024-02-02 09:30:00")]

AcctRow(i) ==
    [id |-> i, account_number |-> Some(NatStr(100000 + i)), name |-> Some("Alice"),
     balance |-> Some(250000 * i), pin |-> Some("1234")]

AtmRow(i) ==
    [id |-> i, cash |-> Some(500000), paper_sheets |-> Some(10), ink_units |-> Some(5)]

TxRow(i) ==
    [id |-> i, account_number |-> Some("100001"), account_holder |-> Some("Alice"),
     transaction_type |-> Some(IF i % 2 = 1 THEN "deposit" ELSE "withdrawal"),
     amount |-> Some(1000 * i), previous_balance |-> Some(250000),
     new_balance |-> Some(250000 + 1000 * i),
     timestamp |-> Some("2024-03-03 12:00:00")]

ActRow(i) ==
    [id |-> i, activity_type |-> Some("refill_cash"),
     amount |-> IF i % 2 = 1 THEN Some(123450) ELSE None,
     description |-> Some("Cash refill"),
     previous_value |-> IF i % 2 = 1 THEN Some(500000) ELSE None,
     new_value |-> IF i % 3 = 0 THEN None ELSE Some(623450),
     timestamp |-> Some("2024-03-04 08:00:00")]

\* a well-formed row of table k with identity i
GoodRow(k, i) ==
    CASE k = 1 -> CredRow(i)
      [] k = 2 -> AcctRow(i)
      [] k = 3 -> AtmRow(i)
      [] k = 4 -> TxRow(i)
      [] k = 5 -> ActRow(i)

\* a row of table k with NULL in a column the report formats with a format spec
NullRow(k, i) ==
    CASE k = 1 -> [CredRow(i) EXCEPT !.username = None]
      [] k = 2 -> [AcctRow(i) EXCEPT !.balance = None]
      [] k = 3 -> [AtmRow(i) EXCEPT !.cash = None]
      [] k = 4 -> [TxRow(i) EXCEPT !.amount = None]
      [] k = 5 -> [ActRow(i) EXCEPT !.description = None]

\* table k with n rows, identities step, 2*step, ..., the row at position
\* nullAt (if any) holding a NULL
TableOf(k, n, step, nullAt) ==
    [i \in 1..n |-> IF i = nullAt THEN NullRow(k, i * step) ELSE GoodRow(k, i * step)]

Database(schema, tables) == [file |-> "db", schema |-> schema, tables |-> tables]

NoTables == [k \in Sections |-> <<>>]

\* no file at the path (the data directory exists)
AbsentStore == [file |-> "absent", schema |-> {}, tables |-> NoTables]

\* the path cannot be opened (no data directory, or no permission)
UnopenableStore == [file |-> "unopenable", schema |-> {}, tables |-> NoTables]

\* all five tables, or all but one (a database of an older schema)
Schemas == {AllTables} \cup {AllTables \ {t} : t \in AllTables}

\* where a NULL row may sit: nowhere, or first or last in one table
NullChoices(n) ==
    {<<0, 0>>} \cup {<<k, 1>> : k \in {j \in Sections : n[j] >= 1}}
               \cup {<<k, n[k]>> : k \in {j \in Sections : n[j] >= 1}}

\* stores with up to MaxSmall rows per table
SmallStores ==
    {AbsentStore, UnopenableStore} \cup
    UNION { UNION { { Database(sch,
                        [k \in Sections |->
                            IF TableNames[k] \in sch
                            THEN TableOf(k, n[k], 1, IF c[1] = k THEN c[2] ELSE 0)
                            ELSE <<>>])
                      : sch \in Schemas }
                    : c \in NullChoices(n) }
            : n \in [Sections -> 0..MaxSmall] }

\* stores whose transactions and technician_activities tables hold up to
\* MaxRows rows, with consecutive or with sparse identities
LargeStores ==
    { Database(AllTables,
        [k \in Sections |->
            CASE k = 4 -> TableOf(4, nt, st, 0)
              [] k = 5 -> TableOf(5, na, sa, 0)
              [] OTHER -> TableOf(k, 1, 1, 0)])
      : nt \in 0..MaxRows, na \in 0..MaxRows, st \in {1, 3}, sa \in {1, 3} }

\* text values shorter than, as long as, and longer than the column widths
Usernames == {"tech1", "exactly15chars!", "a_very_long_username"}
Passwords == {"pw123", "longpassword1"}
FullNames == {"Tech One", "Bartholomew Featherstonehaugh"}
Roles == {"admin", "administrator"}
AccountNumbers == {"100001", "1000017"}
HolderNames == {"Alice", "Alexandria Longname"}
Types == {"deposit", "international_wire"}

\* amounts in cents, below and above 1000.00, and a negative one
Amounts == {0, 5, 99999, 100000, 123450, 250000, 123456789, -150000}

CredRows ==
    { [CredRow(1) EXCEPT !.username = Some(u), !.password = Some(p),
                         !.full_name = Some(f), !.role = Some(r), !.last_login = l]
      : u \in Usernames, p \in Passwords, f \in FullNames, r \in Roles,
        l \in {None, Some("2024-02-02 09:30:00")} }

AcctRows ==
    { [AcctRow(1) EXCEPT !.account_number = Some(a), !.name = Some(h),
                         !.balance = Some(b)]
      : a \in AccountNumbers, h \in HolderNames, b \in Amounts }

AtmRows ==
    { [AtmRow(1) EXCEPT !.cash = Some(c), !.paper_sheets = Some(p)]
      : c \in Amounts, p \in {10, 1000} }

TxRows ==
    { [TxRow(7) EXCEPT !.transaction_type = Some(t), !.amount = Some(a),
                       !.new_balance = Some(b)]
      : t \in Types, a \in {5, 99999, 123450, 123456789}, b \in {250005, -150000} }

ActRows ==
    { [ActRow(7) EXCEPT !.activity_type = Some(t), !.amount = a,
                        !.previous_value = p, !.new_value = v]
      : t \in {"refill_cash", "replace_ink_cartridge"},
        a \in {None, Some(0), Some(99999), Some(123450)},
        p \in {None, Some(500000)}, v \in {None, Some(0)} }

Rows(k) ==
    CASE k = 1 -> CredRows
      [] k = 2 -> AcctRows
      [] k = 3 -> AtmRows
      [] k = 4 -> TxRows
      [] k = 5 -> ActRows

\* stores with one row per table, the row of one table drawn from Rows
RowStores ==
    UNION { { Database(AllTables,
                [k \in Sections |-> IF k = t THEN <<r>> ELSE <<GoodRow(k, 1)>>])
              : r \in Rows(t) }
            : t \in Sections }

----------------------------------------------------------------------------
(* The run *)

NoError == [kind |-> "none", sec |-> 0]

Label == <<"credentials", "accounts", "atm_state", "transactions", "activities",
           "close">>

\* conn = sqlite3.connect('data/atm_database.db'); cursor = conn.cursor()
\* sqlite3 opens the file read-write and creates it, empty, when it is absent;
\* it raises OperationalError when the path cannot be opened.
Connect ==
    /\ pc = "connect"
    /\ IF store.file = "unopenable"
       THEN /\ pc' = "aborted"
            /\ err' = [kind |-> "connect", sec |-> 0]
            /\ UNCHANGED <<conn, store>>
       ELSE /\ pc' = Label[1]
            /\ conn' = "open"
            /\ store' = IF store.file = "absent"
                        THEN [store EXCEPT !.file = "empty"]
                        ELSE store
            /\ UNCHANGED err
    /\ UNCHANGED <<out, executed>>

\* the row loop of section k, with its else branch where it has one
Body(k, rows) ==
    CASE k = 1 -> CredentialsBody(rows)
      [] k = 2 -> AccountsBody(rows)
      [] k = 3 -> AtmStateBody(rows)
      [] k = 4 -> TransactionsBody(rows)
      [] k = 5 -> ActivitiesBody(rows)

\* Section with the query's exception swallowed: the report goes on
SectionGoesOn(k) ==
    /\ executed' = Append(executed, k)
    /\ LET q == Execute(k)
           b == Body(k, q.rows)
       IN  /\ out' = out \o Header(k) \o b.lines
           /\ pc' = IF b.ok THEN Label[k + 1] ELSE "aborted"
           /\ err' = IF b.ok THEN err ELSE [kind |-> "render", sec |-> k]
    /\ UNCHANGED <<conn, store>>

\* One report section: the three header prints, the query, the row loop.
\* An exception of the query or of a row's print ends the run there.
Section(k) ==
    /\ executed' = Append(executed, k)
    /\ LET q == Execute(k)
           b == Body(k, q.rows)
       IN  IF ~q.ok
           THEN /\ out' = out \o Header(k)
                /\ pc' = "aborted"
                /\ err' = [kind |-> "query", sec |-> k]
           ELSE /\ out' = out \o Header(k) \o b.lines
                /\ pc' = IF b.ok THEN Label[k + 1] ELSE "aborted"
                /\ err' = IF b.ok THEN err ELSE [kind |-> "render", sec |-> k]
    /\ UNCHANGED <<conn, store>>

Credentials ==
    /\ pc = "credentials"
    /\ Section(1)

Accounts ==
    /\ pc = "accounts"
    /\ Section(2)

AtmState ==
    /\ pc = "atm_state"
    /\ Section(3)

Transactions ==
    /\ pc = "transactions"
    /\ Section(4)

Activities ==
    /\ pc = "activities"
    /\ Section(5)

\* conn.close()
Close ==
    /\ pc = "close"
    /\ conn' = "closed"
    /\ pc' = "done"
    /\ UNCHANGED <<out, store, err, executed>>

Start ==
    /\ pc = "connect"
    /\ conn = "unopened"
    /\ out = <<>>
    /\ err = NoError
    /\ executed = <<>>

Init == Start /\ store \in SmallStores

InitLimit == Start /\ store \in LargeStores

InitRows == Start /\ store \in RowStores

Next ==
    \/ Connect
    \/ Credentials
    \/ Accounts
    \/ AtmState
    \/ Transactions
    \/ Activities
    \/ Close

Spec == Init /\ [][Next]_vars

SpecLimit == InitLimit /\ [][Next]_vars

SpecRows == InitRows /\ [][Next]_vars

----------------------------------------------------------------------------
(* Reading the output *)

\* the print calls of section k of the given kind, in output order
Prints(k, kind) == SelectSeq(out, LAMBDA l : l.sec = k /\ l.kind = kind)

\* all print calls of section k
PrintsOf(k) == SelectSeq(out, LAMBDA l : l.sec = k)

\* the identities of the rows printed in section k, in output order
PrintedIds(k) == [i \in 1..Len(Prints(k, "row")) |-> Prints(k, "row")[i].id]

\* section k has run to its end without an exception
Completed(k) ==
    \/ pc \in {Label[j] : j \in (k + 1)..6}
    \/ pc = "done"
    \/ (pc = "aborted" /\ err.sec > k)

\* the run has ended
Ended == pc \in {"done", "aborted"}

\* the query of section k cannot succeed on this store
NoSuchTable(k) == store.file \in {"db", "empty"} /\ TableNames[k] \notin store.schema

----------------------------------------------------------------------------
(* C1 *)

\* C1: on every exit path, normal or by an exception of a query or of a row's
\* print, the connection that was opened has been closed when the run ends.
C1_ClosedOnEveryExit == Ended => conn /= "open"

----------------------------------------------------------------------------
(* C2 *)

\* C2: in every run that completes, whatever the row counts, each section's
\* header (rule of 80 '=', title, rule) is printed exactly once, the sections
\* come in the order credentials, accounts, machine state, transactions,
\* activities, and all lines of a section precede the next section's header.
C2_HeadersOnceInOrder ==
    pc = "done" =>
        /\ \A k \in Sections :
              /\ Len(Prints(k, "rule")) = 1
              /\ Len(Prints(k, "title")) = 1
              /\ Len(Prints(k, "rule2")) = 1
              /\ Prints(k, "title")[1].text = Titles[k]
              /\ Len(Prints(k, "rule2")[1].text) = 80
              /\ Prints(k, "rule")[1].text = "\n" \o Prints(k, "rule2")[1].text
              /\ \A c \in 1..80 : SubSeq(Prints(k, "rule2")[1].text, c, c) = "="
              /\ SubSeq(PrintsOf(k), 1, 3) =
                    <<Prints(k, "rule")[1], Prints(k, "title")[1], Prints(k, "rule2")[1]>>
        /\ \A i, j \in 1..Len(out) : i < j => out[i].sec <= out[j].sec
        /\ \A i \in 1..Len(out) : out[i].sec \in Sections

C2_Witness ==
    /\ pc = "done"
    /\ \A k \in Sections : store.tables[k] = <<>>

C2_WitnessRows ==
    /\ pc = "done"
    /\ \A k \in Sections : Len(Prints(k, "row")) = 2

----------------------------------------------------------------------------
(* C3 *)

\* C3: the transaction and the activity section each print min(20, n) rows of
\* the n rows the table holds, in strictly decreasing order of identity, and
\* they are the rows with the largest identities.
C3_LastTwentyNewestFirst ==
    \A k \in {4, 5} :
        Completed(k) =>
            LET ids == PrintedIds(k)
                all == {store.tables[k][i].id : i \in 1..Len(store.tables[k])}
                shown == {ids[i] : i \in 1..Len(ids)}
            IN  /\ Len(ids) = Min(20, Len(store.tables[k]))
                /\ \A i \in 1..(Len(ids) - 1) : ids[i] > ids[i + 1]
                /\ shown \subseteq all
                /\ \A a \in all \ shown : \A b \in shown : a < b

C3_Witness ==
    /\ pc = "done"
    /\ Len(store.tables[4]) > 20
    /\ Len(PrintedIds(4)) = 20
    /\ store.tables[4][1].id = 3
    /\ Len(store.tables[5]) \in 1..19

----------------------------------------------------------------------------
(* C4 *)

\* the row loop and the else branch of section k printed nothing
EmptyBody(k) == Len(PrintsOf(k)) = 3

\* C4 as claimed: in each of the five sections, a query that returns zero rows
\* is followed by an explicit "no records" line.
C4_PlaceholderInEverySection ==
    \A k \in Sections :
        (Completed(k) /\ store.tables[k] = <<>>) => Len(Prints(k, "empty")) = 1

NotFound == <<"No technician credentials found.", "", "",
              "No transactions found.", "No technician activities found.">>

\* C4 amended: the credentials, transactions and activities sections print
\* their "No ... found." line, once, exactly when their query returns zero
\* rows; the accounts and machine-state sections print nothing after their
\* header when their query returns zero rows.
C4_PlaceholderPerSection ==
    \A k \in Sections :
        Completed(k) =>
            IF k \in {1, 4, 5}
            THEN IF store.tables[k] = <<>>
                 THEN /\ Len(PrintsOf(k)) = 4
                      /\ Len(Prints(k, "empty")) = 1
                      /\ Prints(k, "empty")[1].text = NotFound[k]
                 ELSE Prints(k, "empty") = <<>>
            ELSE /\ Prints(k, "empty") = <<>>
                 /\ store.tables[k] = <<>> => EmptyBody(k)

C4_Witness ==
    /\ pc = "done"
    /\ \A k \in Sections : store.tables[k] = <<>>
    /\ EmptyBody(2)
    /\ EmptyBody(3)
    /\ Len(Prints(1, "empty")) = 1

----------------------------------------------------------------------------
(* C5 *)

\* C5: when the query of section k fails (k the first section whose table the
\* store lacks) the run aborts there and the query is not run again: the sections before k are on the output in full, section k
\* shows its header only, and nothing of a later section is printed.
C5_QueryFailureAborts ==
    \A k \in Sections :
        (NoSuchTable(k) /\ \A j \in 1..(k - 1) : ~NoSuchTable(j)) =>
            /\ ~Completed(k)
            /\ \A i \in 1..Len(out) : out[i].sec <= k
            /\ Len(PrintsOf(k)) \in {0, 3}
            /\ \A i, j \in 1..Len(executed) : i /= j => executed[i] /= executed[j]
            /\ \A i \in 1..Len(executed) : executed[i] <= k
            /\ (pc = "aborted" /\ err.kind = "query") =>
                  /\ err.sec = k
                  /\ executed = [i \in 1..k |-> i]
                  /\ Len(PrintsOf(k)) = 3
                  /\ \A j \in 1..(k - 1) :
                        /\ Len(Prints(j, "title")) = 1
                        /\ Len(Prints(j, "row")) = Min(20, Len(store.tables[j]))
                        /\ Len(Prints(j, "empty")) =
                              IF j \in {1, 4, 5} /\ store.tables[j] = <<>> THEN 1 ELSE 0
                  /\ ~ENABLED Next

C5_Witness ==
    /\ pc = "aborted"
    /\ err = [kind |-> "query", sec |-> 4]
    /\ store.file = "db"
    /\ Len(Prints(1, "row")) = 2
    /\ Len(Prints(2, "row")) = 1
    /\ Len(PrintsOf(4)) = 3

----------------------------------------------------------------------------
(* C6 *)

\* C6: when the store is missing or cannot be opened, no report text at all
\* is printed.  ("empty" is the file sqlite3.connect created because the store
\* was missing.)
C6_NoOutputWithoutStore ==
    store.file \in {"absent", "empty", "unopenable"} => out = <<>>

----------------------------------------------------------------------------
(* Reading a printed line *)

\* the row of table k with identity id
RowOf(k, id) ==
    LET t == store.tables[k]
    IN  t[CHOOSE i \in 1..Len(t) : t[i].id = id]

RECURSIVE Strip(_)
\* s without its leading spaces
Strip(s) ==
    IF s /= "" /\ SubSeq(s, 1, 1) = " " THEN Strip(SubSeq(s, 2, Len(s))) ELSE s

IsDigit(c) == \E d \in 0..9 : Digit(d) = c

RECURSIVE DigitsValue(_, _)
\* the number the digits of s spell, other characters skipped
DigitsValue(s, acc) ==
    IF s = "" THEN acc
    ELSE LET c == SubSeq(s, 1, 1)
             v == IF IsDigit(c) THEN 10 * acc + (CHOOSE d \in 0..9 : Digit(d) = c)
                  ELSE acc
         IN  DigitsValue(SubSeq(s, 2, Len(s)), v)

Contains(s, c) == \E i \in 1..Len(s) : SubSeq(s, i, i) = c

\* the amount in cents a printed currency field stands for
ParseCents(s) == IF Contains(s, "-") THEN -DigitsValue(s, 0) ELSE DigitsValue(s, 0)

EndsWith(s, t) == Len(s) >= Len(t) /\ SubSeq(s, Len(s) - Len(t) + 1, Len(s)) = t

\* the field ends in a point and two digits
TwoDecimals(s) ==
    /\ Len(s) >= 4
    /\ SubSeq(s, Len(s) - 2, Len(s) - 2) = "."
    /\ IsDigit(SubSeq(s, Len(s) - 1, Len(s) - 1))
    /\ IsDigit(SubSeq(s, Len(s), Len(s)))
    /\ IsDigit(SubSeq(s, Len(s) - 3, Len(s) - 3))

RowLines(k) == {Prints(k, "row")[i] : i \in 1..Len(Prints(k, "row"))}

----------------------------------------------------------------------------
(* C7 *)

\* C7: a credential row without lastLogin prints Never as its Last Login, and
\* one with a lastLogin prints it as stored; an activity row prints N/A for
\* each of amount, previous_value, new_value that is absent, and the stored
\* value (never N/A, also when it is zero) for each that is present.
C7_NeverAndNA ==
    /\ \A l \in RowLines(1) :
          LET r == RowOf(1, l.id)
              shown == IF r.last_login = None THEN "Never" ELSE r.last_login[1]
          IN  /\ l.cols[7] = shown
              /\ EndsWith(l.text, " | Last Login: " \o shown)
    /\ \A l \in RowLines(5) :
          LET r == RowOf(5, l.id)
              Shows(col, v, sign) ==
                  IF v = None THEN Strip(col) = "N/A"
                  ELSE /\ Strip(col) /= "N/A"
                       /\ SubSeq(Strip(col), 1, Len(sign)) = sign
                       /\ TwoDecimals(col)
                       /\ ParseCents(col) = v[1]
          IN  /\ Shows(l.cols[3], r.amount, "$")
              /\ Shows(l.cols[5], r.previous_value, "")
              /\ Shows(l.cols[6], r.new_value, "")
              /\ l.text = Interleave(ActLabels, l.cols)

C7_Witness ==
    /\ pc = "done"
    /\ store.tables[1][1].last_login = None
    /\ store.tables[5][1].amount = None
    /\ store.tables[5][1].previous_value = None
    /\ store.tables[5][1].new_value = Some(0)
    /\ Len(Prints(1, "row")) = 1
    /\ Len(Prints(5, "row")) = 1

----------------------------------------------------------------------------
(* C8 *)

\* the text columns printed with a width: <<column, field, width>>
TextFields(k) ==
    CASE k = 1 -> << <<2, "username", 15>>, <<3, "password", 10>>,
                     <<4, "full_name", 25>>, <<5, "role", 10>> >>
      [] k = 2 -> << <<1, "account_number", 6>>, <<2, "name", 15>> >>
      [] k = 3 -> << >>
      [] k = 4 -> << <<2, "account_number", 6>>, <<3, "account_holder", 15>>,
                     <<4, "transaction_type", 15>> >>
      [] k = 5 -> << <<2, "activity_type", 15>>, <<4, "description", 25>> >>

LabelsOf(k) ==
    CASE k = 1 -> CredLabels
      [] k = 2 -> AcctLabels
      [] k = 3 -> AtmLabels
      [] k = 4 -> TxLabels
      [] k = 5 -> ActLabels

RECURSIVE StartOf(_, _, _)
\* the offset (from 1) in the line at which column c begins
StartOf(labels, cols, c) ==
    IF c = 1 THEN Len(labels[1]) + 1
    ELSE StartOf(labels, cols, c - 1) + Len(cols[c - 1]) + Len(labels[c])

----------------------------------------------------------------------------
(* C9 *)

\* the columns that print money: <<column, field>>
MoneyFields(k) ==
    CASE k = 1 -> << >>
      [] k = 2 -> << <<3, "balance">> >>
      [] k = 3 -> << <<1, "cash">> >>
      [] k = 4 -> << <<5, "amount">>, <<6, "previous_balance">>, <<7, "new_balance">> >>
      [] k = 5 -> << <<3, "amount">> >>

\* C9: every currency field that is present is printed with exactly two
\* decimal digits, and with a ',' group separator when the value is 1000.00
\* or more.
C9_TwoDecimalsAndGroups ==
    \A k \in Sections : \A l \in RowLines(k) :
        \A f \in 1..Len(MoneyFields(k)) :
            LET v == RowOf(k, l.id)[MoneyFields(k)[f][2]]
                col == l.cols[MoneyFields(k)[f][1]]
            IN  v /= None =>
                    /\ TwoDecimals(col)
                    /\ v[1] >= 100000 => Contains(col, ",")

----------------------------------------------------------------------------
(* C10 *)

\* C10: no step of the run changes the store: neither its rows, nor its
\* tables, nor whether the file exists.
C10_StoreUnchanged == [][store' = store]_vars

====
